---- MODULE Spec2Model ----
(***************************************************************************)
(* State-machine model of the WebAuthn ceremony handlers of                *)
(* src/backend/handlers_unauth.rs and src/utils/webauthn.rs.               *)
(*                                                                         *)
(* Every request handler is a process that runs from one suspension point  *)
(* or shared-state access to the next in one step.  Handlers of different  *)
(* clients interleave freely between those steps (tokio's multi-threaded   *)
(* runtime).  The three RwLocks of the program are modelled by their       *)
(* holders.  The user store, the token store and the mail transport        *)
(* (crate::database::user, crate::database::token, crate::email) are       *)
(* collaborators whose calls appear in the handlers; each call that the    *)
(* handler treats as fallible may fail.                                    *)
(***************************************************************************)
EXTENDS Integers, FiniteSets, Sequences, TLC

\* ---------------------------------------------------------------- bounds

\* Number of ceremonies (state ids / challenges / user handles) ever begun.
MaxIds == 2
\* Number of single-use tokens ever generated.
MaxTokens == 2

\* ------------------------------------------------------------ HTTP status

OK == 200
SEE_OTHER == 303
BAD_REQUEST == 400
UNAUTHORIZED == 401
INTERNAL_SERVER_ERROR == 500

\* ----------------------------------------------------------------- inputs

\* Option::None of a string / of an identifier taken from the JSON payload.
None == "None"
NoId == 0

StateIds == 1..MaxIds
Challenges == 1..MaxIds
Tokens == 1..MaxTokens

\* A client response blob: absent from the payload, not deserialisable, or
\* well formed.  A well-formed response carries the challenge embedded in its
\* client data (0: client data without a challenge field, -1: client data
\* that is not JSON) and whether the crypto library's own verification of it
\* would succeed.
NoResponse == [shape |-> "absent", challenge |-> 0, verifies |-> FALSE]
BadResponse == [shape |-> "malformed", challenge |-> 0, verifies |-> FALSE]

\* ---------------------------------------------------------------- helpers

Insert(m, k, v) == [x \in DOMAIN m \cup {k} |-> IF x = k THEN v ELSE m[x]]
Remove(m, k) == [x \in DOMAIN m \ {k} |-> m[x]]
EmptyMap == [x \in {} |-> 0]

VARIABLES
    REGISTRATION_STATES,    \* state_id -> StoredRegistrationState
    AUTHENTICATION_STATES,  \* state_id -> TimedStoredState<PasskeyAuthentication>
    CREDENTIAL_STORE,       \* email -> Passkey
    regLock,                \* holder of REGISTRATION_STATES.write(), or None
    authLock,               \* holder of AUTHENTICATION_STATES.write(), or None
    credWriter,             \* holder of CREDENTIAL_STORE.write(), or None
    credReaders,            \* holders of CREDENTIAL_STORE.read()
    users,                  \* user store: email -> record
    tokens,                 \* token store: token -> email
    session,                \* per client: the session's keys and values
    pc,                     \* per client: position in the running handler
    loc,                    \* per client: the handler's locals and response
    nextId,                 \* number of ceremonies begun so far
    nextToken,              \* number of tokens generated so far
    hist,                   \* history of the run (observation only)
    world                   \* the instance explored: clients, emails, faults

vars ==
    << REGISTRATION_STATES, AUTHENTICATION_STATES, CREDENTIAL_STORE, regLock,
       authLock, credWriter, credReaders, users, tokens, session, pc, loc,
       nextId, nextToken, hist, world >>

stores == << REGISTRATION_STATES, AUTHENTICATION_STATES, CREDENTIAL_STORE >>
locks == << regLock, authLock, credWriter, credReaders >>
db == << users, tokens >>
fresh == << nextId, nextToken >>

\* ------------------------------------------------------------- instances

\* The instances explored.  Solo: one client, two accounts, payloads that
\* may lack or garble any field, collaborators that may fail, no request in
\* reset mode.  Duo: two clients whose handlers interleave, one account,
\* well-typed payloads, with or without reset mode, and collaborators that
\* answer.
Solo ==
    [ procs |-> {"c1"}, emails |-> {"a@x.com", "b@x.com"},
      malformed |-> TRUE, faults |-> TRUE, resets |-> FALSE ]
Duo ==
    [ procs |-> {"c1", "c2"}, emails |-> {"a@x.com"},
      malformed |-> FALSE, faults |-> FALSE, resets |-> TRUE ]
Worlds == {Solo, Duo}

\* The clients: each has its own session and runs one request at a time.
Procs == {"c1", "c2"}

Malformed(S) == IF world.malformed THEN S ELSE {}
EmailInputs == world.emails \cup Malformed({"invalid-email", None})
NameInputs == {"Jean"} \cup Malformed({None})
ResetModeInputs ==
    {"false"} \cup (IF world.resets THEN {"true"} ELSE {})
              \cup Malformed({None})
StateIdInputs == StateIds \cup Malformed({NoId})
TokenInputs == Tokens \cup {0}
RegResponses ==
    Malformed({NoResponse, BadResponse})
        \cup [shape : {"ok"}, challenge : {0}, verifies : BOOLEAN]
AuthResponses ==
    Malformed({NoResponse, BadResponse})
        \cup [shape : {"ok"}, challenge : Challenges \cup Malformed({0, -1}),
               verifies : BOOLEAN]

\* Result::Ok or Result::Err of a call to a collaborator that may fail.
Outcomes == {TRUE} \cup (IF world.faults THEN {FALSE} ELSE {})

\* #[validate(email)] of EmailInput
EmailInput_new(email) == email \notin {"invalid-email", None}


\* ----------------------------------------------------------------- locals

\* A protocol state of the crypto library: the credential it is about (the
\* user handle being registered, the passkey allowed to log in) and the
\* challenge it issued.
NoState == [cred |-> 0, challenge |-> 0]

\* The locals of a handler.  `existed`, `late`, `live` and `done` observe the
\* run: whether the account existed at the already-exists check, whether the
\* request came after a successful completion of its state id, whether the
\* lookup found the state, and the side effects performed so far.
NoLoc ==
    [ handler |-> None, email |-> None, first_name |-> None,
      last_name |-> None, state_id |-> NoId, response |-> NoResponse,
      stored |-> NoState, passkey |-> 0, token |-> 0,
      reset_mode |-> FALSE, existed |-> FALSE, late |-> FALSE,
      live |-> FALSE, done |-> << >>, status |-> 0, body |-> "" ]

Start(h) == [NoLoc EXCEPT !.handler = h]

\* What stays observable of a handler's locals once it has returned.
Observed(l) ==
    [l EXCEPT !.first_name = None, !.last_name = None, !.stored = NoState,
              !.passkey = 0, !.response.challenge = 0]

\* A handler returns: its response is on its way to the client.
Return(p, status, body, l) ==
    /\ pc' = [pc EXCEPT ![p] = "done"]
    /\ loc' = [loc EXCEPT ![p] =
                 [Observed(l) EXCEPT !.status = status, !.body = body]]

\* A handler moves on to its next step.
Goto(p, label, l) ==
    /\ pc' = [pc EXCEPT ![p] = label]
    /\ loc' = [loc EXCEPT ![p] = l]

\* A session with no key in it.
NoSession == EmptyMap

NoHist ==
    [ begun |-> EmptyMap,     \* state id -> the request that began it
      completed |-> EmptyMap, \* state id -> the handler that completed it
      taken |-> EmptyMap,     \* state id -> times a lookup obtained its state
      issued |-> EmptyMap,    \* token -> [email, purpose]
      consumed |-> EmptyMap ] \* token -> the endpoints that consumed it

Init ==
    /\ world \in Worlds
    /\ REGISTRATION_STATES = EmptyMap
    /\ AUTHENTICATION_STATES = EmptyMap
    /\ CREDENTIAL_STORE = EmptyMap
    /\ regLock = None
    /\ authLock = None
    /\ credWriter = None
    /\ credReaders = {}
    /\ users = EmptyMap
    /\ tokens = EmptyMap
    /\ session = [p \in Procs |-> NoSession]
    /\ pc = [p \in Procs |-> IF p \in world.procs THEN "idle" ELSE "off"]
    /\ loc = [p \in Procs |-> NoLoc]
    /\ nextId = 0
    /\ nextToken = 0
    /\ hist = NoHist

\* ---------------------------------------------------------- collaborators

\* crate::database::user
user_exists(email) == email \in DOMAIN users
user_get(email) == users[email]
user_create(email, first_name, last_name) ==
    Insert(users, email,
           [ first_name |-> first_name, last_name |-> last_name,
             verified |-> FALSE, passkey |-> 0 ])
user_set_passkey(email, passkey) ==
    [users EXCEPT ![email].passkey = passkey]
user_verify(email) == [users EXCEPT ![email].verified = TRUE]

\* crate::database::token
token_generate(email) == Insert(tokens, nextToken + 1, email)
\* consume hands the owner out and keeps the token.
token_consume_keep(token) == tokens
token_consume(token) == Remove(tokens, token)

\* crate::email::send_mail: the transport accepts the message or fails.
send_mail == Outcomes

\* The identifier is the same at every call: the first of the state ids.
Uuid_nil == CHOOSE id \in StateIds : \A other \in StateIds : id <= other

\* uuid::Uuid::new_v4(): an identifier no earlier call returned.
Uuid_new_v4 == nextId + 1

\* WEBAUTHN.start_passkey_registration: a fresh challenge and the protocol
\* state of a newly generated user handle.
begin_registration(n) ==
    [ public_key |-> [challenge |-> n],
      reg_state |-> [cred |-> n, challenge |-> n] ]

\* The passkey is handed out without the verification of the response.
finish_passkey_registration_unverified(response, registration_state) ==
    registration_state.cred

\* WEBAUTHN.finish_passkey_registration: the library's verdict on the
\* response; on success the passkey of the ceremony's user handle.
finish_passkey_registration(response, registration_state) ==
    IF response.verifies THEN registration_state.cred ELSE 0

\* WEBAUTHN.start_passkey_authentication over the one stored passkey.
begin_authentication(passkey, n) ==
    [ public_key |-> [challenge |-> n],
      auth_state |-> [cred |-> passkey, challenge |-> n] ]

\* WEBAUTHN.finish_passkey_authentication: the library's verdict.
finish_passkey_authentication(response, state) == response.verifies

\* The history of the run after handler h stored, under `state_id`, the
\* state of the ceremony that client p began.
Begun(p, h) ==
    [hist EXCEPT !.begun =
       Insert(@, loc[p].state_id,
              [handler |-> h, email |-> loc[p].email])]

\* The history of the run after handler h completed `state_id` with success.
Completed(state_id, h) ==
    [hist EXCEPT !.completed = Insert(@, state_id, h)]

\* The history of the run after a lookup obtained the state of `state_id`.
Taken(state_id) ==
    [hist EXCEPT !.taken =
       Insert(@, state_id,
              IF state_id \in DOMAIN @ THEN @[state_id] + 1 ELSE 1)]

\* ---------------------------------------------------------- register_begin

\* The already-exists check made in reset mode as well.
register_begin_check_always(reset_mode, email) == user_exists(email)

\* Lines 81-86: the already-exists check, skipped in reset mode.
register_begin_check(reset_mode, email) ==
    ~reset_mode /\ user_exists(email)

\* Lines 67-94: payload extraction, validation, the already-exists check,
\* begin_registration and the new state id.
register_begin(p) ==
    /\ pc[p] = "idle"
    /\ \E email \in EmailInputs, rm \in ResetModeInputs :
        LET reset_mode == (rm = "true")
            h == "register_begin"
            l == [Start(h) EXCEPT !.email = email, !.reset_mode = reset_mode,
                                  !.existed = user_exists(email)]
        IN  \/ /\ email = None
               /\ Return(p, BAD_REQUEST, "Email is required", Start(h))
               /\ UNCHANGED nextId
            \/ /\ email # None
               /\ ~EmailInput_new(email)
               /\ Return(p, BAD_REQUEST, "Email is Invalid !", Start(h))
               /\ UNCHANGED nextId
            \/ /\ EmailInput_new(email)
               /\ register_begin_check(reset_mode, email)
               /\ Return(p, BAD_REQUEST,
                         "There was a problem with your registration", l)
               /\ UNCHANGED nextId
            \/ /\ EmailInput_new(email)
               /\ ~register_begin_check(reset_mode, email)
               /\ nextId < MaxIds
               /\ LET b == begin_registration(nextId + 1)
                  IN  Goto(p, "rb_insert",
                           [l EXCEPT !.state_id = Uuid_new_v4,
                                     !.stored = b.reg_state])
               /\ nextId' = nextId + 1
    /\ UNCHANGED << world, stores, locks, db, session, nextToken, hist >>

\* Lines 96-109: REGISTRATION_STATES.write(), insert, return.
register_begin_insert(p) ==
    /\ pc[p] = "rb_insert"
    /\ regLock = None
    /\ REGISTRATION_STATES' =
         Insert(REGISTRATION_STATES, loc[p].state_id,
                [ registration_state |-> loc[p].stored,
                  challenge |-> loc[p].stored.challenge ])
    /\ Return(p, OK, "publicKey", loc[p])
    /\ hist' = Begun(p, "register_begin")
    /\ UNCHANGED << world, AUTHENTICATION_STATES, CREDENTIAL_STORE, locks, db,
                    session, fresh >>

\* ------------------------------------------------------- register_complete

Did(p, what) == Append(loc[p].done, what)

\* Lines 116-140: the required fields of the payload.
register_complete(p) ==
    /\ pc[p] = "idle"
    /\ \E email \in EmailInputs, first_name \in NameInputs,
          last_name \in NameInputs, state_id \in StateIdInputs,
          response \in RegResponses :
        LET h == "register_complete"
            bad(msg) == Return(p, BAD_REQUEST, msg, Start(h))
        IN  CASE email = None -> bad("Email is required")
              [] ~EmailInput_new(email) -> bad("Email is Invalid!")
              [] first_name = None -> bad("First name is required")
              [] last_name = None -> bad("Last name is required")
              [] state_id = NoId -> bad("State ID is required")
              [] OTHER ->
                   Goto(p, "rc_take",
                        [Start(h) EXCEPT
                           !.email = email, !.first_name = first_name,
                           !.last_name = last_name, !.state_id = state_id,
                           !.response = response,
                           !.late = state_id \in DOMAIN hist.completed])
    /\ UNCHANGED << world, stores, locks, db, session, fresh, hist >>

\* The lookup reads the entry and leaves it in the map.
registration_states_get(state_id) == REGISTRATION_STATES

\* The lookup of one key empties the map.
registration_states_clear(state_id) == EmptyMap

\* Line 144, states.remove(state_id): the map afterwards (as it was when the
\* key is not in it).
registration_states_remove(state_id) ==
    Remove(REGISTRATION_STATES, state_id)

\* Lines 142-159: REGISTRATION_STATES.write(), remove(state_id), then the
\* deserialisation of the response.  The write guard `states` lives until
\* the handler returns.
register_complete_take(p) ==
    /\ pc[p] = "rc_take"
    /\ regLock = None
    /\ LET state_id == loc[p].state_id
       IN  IF state_id \notin DOMAIN REGISTRATION_STATES
           THEN /\ REGISTRATION_STATES' =
                     registration_states_remove(state_id)
                /\ Return(p, BAD_REQUEST, "Invalid state", loc[p])
                /\ UNCHANGED << regLock, hist >>
           ELSE LET l == [loc[p] EXCEPT
                            !.stored =
                               REGISTRATION_STATES[state_id].registration_state,
                            !.live = TRUE]
                IN  /\ REGISTRATION_STATES' =
                         registration_states_remove(state_id)
                    /\ hist' = Taken(state_id)
                    /\ CASE loc[p].response.shape = "absent" ->
                              /\ Return(p, BAD_REQUEST,
                                        "Response is required", l)
                              /\ UNCHANGED regLock
                         [] loc[p].response.shape = "malformed" ->
                              /\ Return(p, BAD_REQUEST,
                                        "Invalid response format", l)
                              /\ UNCHANGED regLock
                         [] OTHER ->
                              /\ regLock' = p
                              /\ Goto(p, "rc_finish", l)
    /\ UNCHANGED << world, AUTHENTICATION_STATES, CREDENTIAL_STORE, authLock,
                    credWriter, credReaders, db, session, fresh >>

\* webauthn.rs lines 75-78: WEBAUTHN.finish_passkey_registration.
complete_registration_finish(p) ==
    /\ pc[p] = "rc_finish"
    /\ LET passkey == finish_passkey_registration(loc[p].response,
                                                  loc[p].stored)
       IN  IF passkey = 0
           THEN /\ Return(p, INTERNAL_SERVER_ERROR,
                          "Failed to complete registration", loc[p])
                /\ regLock' = None
           ELSE /\ Goto(p, "rc_store", [loc[p] EXCEPT !.passkey = passkey])
                /\ UNCHANGED regLock
    /\ UNCHANGED << world, stores, authLock, credWriter, credReaders, db, session,
                    fresh, hist >>

\* The passkey is verified and then dropped: the map stays as it was.
credential_store_skip(email, passkey) == CREDENTIAL_STORE

\* webauthn.rs line 81, store.insert(user_email, passkey): the map afterwards.
credential_store_insert(email, passkey) ==
    Insert(CREDENTIAL_STORE, email, passkey)

\* webauthn.rs lines 80-83: CREDENTIAL_STORE.write(), insert, guard dropped.
complete_registration_store(p) ==
    /\ pc[p] = "rc_store"
    /\ credWriter = None
    /\ credReaders = {}
    /\ CREDENTIAL_STORE' = credential_store_insert(loc[p].email, loc[p].passkey)
    /\ Goto(p, "rc_passkey",
            [loc[p] EXCEPT !.passkey = 0, !.done = Did(p, "record")])
    /\ UNCHANGED << world, REGISTRATION_STATES, AUTHENTICATION_STATES, locks, db,
                    session, fresh, hist >>

\* Lines 171-177: CREDENTIAL_STORE.read().get(email), cloned.
register_complete_passkey(p) ==
    /\ pc[p] = "rc_passkey"
    /\ credWriter = None
    /\ IF loc[p].email \in DOMAIN CREDENTIAL_STORE
       THEN /\ Goto(p, "rc_create",
                    [loc[p] EXCEPT !.passkey = CREDENTIAL_STORE[loc[p].email]])
            /\ UNCHANGED regLock
       ELSE /\ Return(p, INTERNAL_SERVER_ERROR, "Passkey not found", loc[p])
            /\ regLock' = None
    /\ UNCHANGED << world, stores, authLock, credWriter, credReaders, db, session,
                    fresh, hist >>

\* The account is created and marked verified at once.
register_complete_user_verified(l) ==
    Insert(users, l.email,
           [ first_name |-> l.first_name, last_name |-> l.last_name,
             verified |-> TRUE, passkey |-> 0 ])

\* Line 180, user::create(email, first_name, last_name): the user store
\* afterwards.
register_complete_user(l) ==
    user_create(l.email, l.first_name, l.last_name)

\* Lines 179-185: user::create.
register_complete_create(p) ==
    /\ pc[p] = "rc_create"
    /\ \/ /\ users' = register_complete_user(loc[p])
          /\ Goto(p, "rc_set_passkey", [loc[p] EXCEPT !.done = Did(p, "create")])
          /\ UNCHANGED regLock
       \/ /\ world.faults
          /\ Return(p, INTERNAL_SERVER_ERROR, "Failed to create user", loc[p])
          /\ regLock' = None
          /\ UNCHANGED users
    /\ UNCHANGED << world, stores, authLock, credWriter, credReaders, tokens,
                    session, fresh, hist >>

\* Lines 187-189: user::set_passkey.
register_complete_set_passkey(p) ==
    /\ pc[p] = "rc_set_passkey"
    /\ \/ /\ user_exists(loc[p].email)
          /\ users' = user_set_passkey(loc[p].email, loc[p].passkey)
          /\ Goto(p, "rc_token", [loc[p] EXCEPT !.done = Did(p, "attach")])
          /\ UNCHANGED regLock
       \/ /\ world.faults
          /\ Return(p, INTERNAL_SERVER_ERROR, "Failed to set passkey", loc[p])
          /\ regLock' = None
          /\ UNCHANGED users
    /\ UNCHANGED << world, stores, authLock, credWriter, credReaders, tokens,
                    session, fresh, hist >>

\* The history of the run after a token was generated for `email`.
Issued(email, purpose) ==
    [hist EXCEPT !.issued =
       Insert(@, nextToken + 1, [email |-> email, purpose |-> purpose])]

\* Lines 191-197: token::generate.
register_complete_token(p) ==
    /\ pc[p] = "rc_token"
    /\ \/ /\ nextToken < MaxTokens
          /\ tokens' = token_generate(loc[p].email)
          /\ nextToken' = nextToken + 1
          /\ hist' = Issued(loc[p].email, "validation")
          /\ Goto(p, "rc_mail", [loc[p] EXCEPT !.done = Did(p, "token"),
                                               !.token = nextToken + 1])
          /\ UNCHANGED regLock
       \/ /\ world.faults \/ nextToken = MaxTokens
          /\ Return(p, INTERNAL_SERVER_ERROR,
                    "Failed to generate validation token", loc[p])
          /\ regLock' = None
          /\ UNCHANGED << tokens, nextToken, hist >>
    /\ UNCHANGED << world, stores, authLock, credWriter, credReaders, users,
                    session, nextId >>

\* Lines 200-214: send_mail, then StatusCode::OK.
register_complete_mail(p) ==
    /\ pc[p] = "rc_mail"
    /\ regLock' = None
    /\ LET l == [loc[p] EXCEPT !.done = Did(p, "mail")]
       IN  \E sent \in send_mail :
             IF sent
             THEN /\ Return(p, OK, "", l)
                  /\ hist' = Completed(loc[p].state_id, "register_complete")
             ELSE /\ Return(p, INTERNAL_SERVER_ERROR,
                            "Failed to send validation email", l)
                  /\ UNCHANGED hist
    /\ UNCHANGED << world, stores, authLock, credWriter, credReaders, users, tokens,
                    session, fresh >>

\* ------------------------------------------------------------- login_begin

\* user::exists without the look at the verified flag.
login_begin_check_exists(email) ==
    IF ~user_exists(email) THEN "User not found" ELSE "ok"

\* Lines 230-238: user::exists and the verified flag.
login_begin_check(email) ==
    IF ~user_exists(email) THEN "User not found"
    ELSE IF ~user_get(email).verified THEN "User not verified"
    ELSE "ok"

\* Lines 221-238: the email, user::exists and the verified flag.
login_begin(p) ==
    /\ pc[p] = "idle"
    /\ \E email \in EmailInputs :
        LET h == "login_begin"
            l == [Start(h) EXCEPT !.email = email]
        IN  CASE email = None ->
                   Return(p, BAD_REQUEST, "Email is required", l)
              [] ~EmailInput_new(email) ->
                   Return(p, BAD_REQUEST, "Email is Invalid!", l)
              [] login_begin_check(email) # "ok" ->
                   Return(p, BAD_REQUEST, login_begin_check(email),
                          [l EXCEPT !.existed = user_exists(email)])
              [] OTHER -> Goto(p, "lb_read", [l EXCEPT !.existed = TRUE])
    /\ UNCHANGED << world, stores, locks, db, session, fresh, hist >>

\* webauthn.rs lines 89-90: CREDENTIAL_STORE.read() and the user's passkey.
\* The read guard `store` lives until begin_authentication returns.
begin_authentication_read(p) ==
    /\ pc[p] = "lb_read"
    /\ credWriter = None
    /\ IF loc[p].email \in DOMAIN CREDENTIAL_STORE
       THEN /\ credReaders' = credReaders \cup {p}
            /\ Goto(p, "lb_start",
                    [loc[p] EXCEPT !.passkey = CREDENTIAL_STORE[loc[p].email]])
       ELSE /\ Return(p, INTERNAL_SERVER_ERROR, "User not found", loc[p])
            /\ UNCHANGED credReaders
    /\ UNCHANGED << world, stores, regLock, authLock, credWriter, db, session, fresh,
                    hist >>

\* The read guard outlives begin_authentication: the handler stays among
\* the readers.
credential_store_read_leak(p) == credReaders

\* webauthn.rs line 109: begin_authentication returns and its read guard
\* `store` is dropped: the readers afterwards.
credential_store_read_drop(p) == credReaders \ {p}

\* webauthn.rs lines 94-108 and line 245: start_passkey_authentication, the
\* read guard dropped, the new state id.
begin_authentication_start(p) ==
    /\ pc[p] = "lb_start"
    /\ credReaders' = credential_store_read_drop(p)
    /\ \/ /\ nextId < MaxIds
          /\ LET b == begin_authentication(loc[p].passkey, nextId + 1)
             IN  Goto(p, "lb_insert",
                      [loc[p] EXCEPT !.state_id = Uuid_new_v4,
                                     !.stored = b.auth_state])
          /\ nextId' = nextId + 1
       \/ /\ world.faults \/ nextId = MaxIds
          /\ Return(p, INTERNAL_SERVER_ERROR,
                    "Failed to start authentication", loc[p])
          /\ UNCHANGED nextId
    /\ UNCHANGED << world, stores, regLock, authLock, credWriter, db, session,
                    nextToken, hist >>

\* Lines 247-260: AUTHENTICATION_STATES.write(), insert, return.
login_begin_insert(p) ==
    /\ pc[p] = "lb_insert"
    /\ authLock = None
    /\ AUTHENTICATION_STATES' =
         Insert(AUTHENTICATION_STATES, loc[p].state_id,
                [ state |-> loc[p].stored,
                  server_challenge |-> loc[p].stored.challenge ])
    /\ Return(p, OK, "publicKey", loc[p])
    /\ hist' = Begun(p, "login_begin")
    /\ UNCHANGED << world, REGISTRATION_STATES, CREDENTIAL_STORE, locks, db,
                    session, fresh >>

\* ---------------------------------------------------------- login_complete

\* Lines 269-276: the required fields of the payload.
login_complete(p) ==
    /\ pc[p] = "idle"
    /\ \E state_id \in StateIdInputs, response \in AuthResponses :
        LET h == "login_complete"
        IN  CASE response.shape = "absent" ->
                   Return(p, BAD_REQUEST, "Response is required", Start(h))
              [] state_id = NoId ->
                   Return(p, BAD_REQUEST, "State ID is required", Start(h))
              [] OTHER ->
                   Goto(p, "lc_take",
                        [Start(h) EXCEPT
                           !.state_id = state_id, !.response = response,
                           !.late = state_id \in DOMAIN hist.completed])
    /\ UNCHANGED << world, stores, locks, db, session, fresh, hist >>

\* The lookup reads the entry and leaves it in the map.
authentication_states_get(state_id) == AUTHENTICATION_STATES

\* The lookup of one key empties the map.
authentication_states_clear(state_id) == EmptyMap

\* The lookup falls back on the registration ceremonies: one store of
\* ceremony states for both handshakes.
authentication_states_shared(state_id) ==
    IF state_id \in DOMAIN AUTHENTICATION_STATES
    THEN {AUTHENTICATION_STATES[state_id]}
    ELSE IF state_id \in DOMAIN REGISTRATION_STATES
    THEN {[ state |-> REGISTRATION_STATES[state_id].registration_state,
            server_challenge |-> REGISTRATION_STATES[state_id].challenge ]}
    ELSE {}

\* Line 281, states.remove(state_id): the Option it returns, Some(entry) as
\* {entry} and None as {}.  The map is AUTHENTICATION_STATES (lines 59-61),
\* a static of its own.
authentication_states_removed(state_id) ==
    IF state_id \in DOMAIN AUTHENTICATION_STATES
    THEN {AUTHENTICATION_STATES[state_id]}
    ELSE {}

\* Line 281, states.remove(state_id): the map afterwards (as it was when the
\* key is not in it).
authentication_states_remove(state_id) ==
    Remove(AUTHENTICATION_STATES, state_id)

\* The client data is not looked at.
complete_authentication_unchecked(response, server_challenge) == "ok"

\* The client data and its challenge, with no comparison against the
\* challenge recorded at login_begin.
complete_authentication_uncompared(response, server_challenge) ==
    IF response.challenge = -1 THEN "Failed to parse client_data_json"
    ELSE IF response.challenge = 0 THEN "Missing challenge"
    ELSE "ok"

\* webauthn.rs lines 117-133: the client data and its challenge, compared
\* with the challenge recorded at login_begin.
complete_authentication_check(response, server_challenge) ==
    IF response.challenge = -1 THEN "Failed to parse client_data_json"
    ELSE IF response.challenge = 0 THEN "Missing challenge"
    ELSE IF response.challenge # server_challenge THEN "Invalid challenge"
    ELSE "ok"

\* Lines 278-295 and webauthn.rs lines 117-133: AUTHENTICATION_STATES.write(),
\* remove(state_id), the deserialisation of the response and the challenge
\* check.  The write guard `states` lives until the handler returns.
login_complete_take(p) ==
    /\ pc[p] = "lc_take"
    /\ authLock = None
    /\ LET state_id == loc[p].state_id
           removed == authentication_states_removed(state_id)
       IN  IF removed = {}
           THEN /\ AUTHENTICATION_STATES' =
                     authentication_states_remove(state_id)
                /\ Return(p, BAD_REQUEST, "Invalid state", loc[p])
                /\ UNCHANGED << authLock, hist >>
           ELSE LET stored_state == CHOOSE entry \in removed : TRUE
                    check == complete_authentication_check(
                                 loc[p].response,
                                 stored_state.server_challenge)
                    l == [loc[p] EXCEPT !.stored = stored_state.state,
                                        !.live = TRUE]
                IN  /\ AUTHENTICATION_STATES' =
                         authentication_states_remove(state_id)
                    /\ hist' = Taken(state_id)
                    /\ CASE loc[p].response.shape = "malformed" ->
                              /\ Return(p, BAD_REQUEST,
                                        "Invalid response format", l)
                              /\ UNCHANGED authLock
                         [] check # "ok" ->
                              /\ Return(p, UNAUTHORIZED, check, l)
                              /\ UNCHANGED authLock
                         [] OTHER ->
                              /\ authLock' = p
                              /\ Goto(p, "lc_finish", l)
    /\ UNCHANGED << world, REGISTRATION_STATES, CREDENTIAL_STORE, regLock,
                    credWriter, credReaders, db, session, fresh >>

\* webauthn.rs lines 136-141: WEBAUTHN.finish_passkey_authentication.
complete_authentication_finish(p) ==
    /\ pc[p] = "lc_finish"
    /\ IF finish_passkey_authentication(loc[p].response, loc[p].stored)
       THEN /\ Goto(p, "lc_session", loc[p])
            /\ UNCHANGED authLock
       ELSE /\ Return(p, UNAUTHORIZED, "Failed to finish authentication",
                      loc[p])
            /\ authLock' = None
    /\ UNCHANGED << world, stores, regLock, credWriter, credReaders, db, session,
                    fresh, hist >>

\* Lines 297-302: session.insert("isAuthenticated", true), Redirect::to.
login_complete_session(p) ==
    /\ pc[p] = "lc_session"
    /\ authLock' = None
    /\ \/ /\ session' = [session EXCEPT
                            ![p] = Insert(@, "isAuthenticated", TRUE)]
          /\ Return(p, SEE_OTHER, "/home", loc[p])
          /\ hist' = Completed(loc[p].state_id, "login_complete")
       \/ /\ world.faults
          /\ Return(p, INTERNAL_SERVER_ERROR, "Failed to set session", loc[p])
          /\ UNCHANGED << session, hist >>
    /\ UNCHANGED << world, stores, regLock, credWriter, credReaders, db, fresh >>

\* Lines 305-309: session.delete().
logout(p) ==
    /\ pc[p] = "idle"
    /\ session' = [session EXCEPT ![p] = NoSession]
    /\ Return(p, SEE_OTHER, "/", Start("logout"))
    /\ UNCHANGED << world, stores, locks, db, fresh, hist >>

\* ------------------------------------------------------------ token flows

\* The history of the run after endpoint `via` consumed `token`.
Consumed(token, via) ==
    [hist EXCEPT !.consumed =
       Insert(@, token,
              IF token \in DOMAIN @ THEN Append(@[token], via) ELSE << via >>)]

\* Lines 312-313 and 318: token::consume(&token).
validate_account(p) ==
    /\ pc[p] = "idle"
    /\ \E token \in TokenInputs :
        LET h == "validate_account"
            l == [Start(h) EXCEPT !.token = token]
        IN  IF token \in DOMAIN tokens
            THEN /\ tokens' = token_consume(token)
                 /\ hist' = Consumed(token, h)
                 /\ Goto(p, "va_verify", [l EXCEPT !.email = tokens[token]])
            ELSE /\ Return(p, SEE_OTHER, "/register?error=invalid_token", l)
                 /\ UNCHANGED << tokens, hist >>
    /\ UNCHANGED << world, stores, locks, users, session, fresh >>

\* Lines 314-317: user::verify(&email).
validate_account_verify(p) ==
    /\ pc[p] = "va_verify"
    /\ \/ /\ user_exists(loc[p].email)
          /\ users' = user_verify(loc[p].email)
          /\ UNCHANGED hist
          /\ Return(p, SEE_OTHER, "/login?validated=true", loc[p])
       \/ /\ world.faults
          /\ Return(p, SEE_OTHER, "/register?error=validation_failed", loc[p])
          /\ UNCHANGED << users, hist >>
    /\ UNCHANGED << world, stores, locks, tokens, session, fresh >>

\* Lines 326-336: the email and user::exists.
recover_account(p) ==
    /\ pc[p] = "idle"
    /\ \E email \in EmailInputs :
        LET h == "recover_account"
            l == [Start(h) EXCEPT !.email = email]
        IN  CASE email = None ->
                   Return(p, BAD_REQUEST, "Email is required", l)
              [] ~user_exists(email) -> Return(p, OK, "User not found", l)
              [] OTHER -> Goto(p, "rec_token", l)
    /\ UNCHANGED << world, stores, locks, db, session, fresh, hist >>

\* Lines 338-344: token::generate.
recover_account_token(p) ==
    /\ pc[p] = "rec_token"
    /\ \/ /\ nextToken < MaxTokens
          /\ tokens' = token_generate(loc[p].email)
          /\ nextToken' = nextToken + 1
          /\ hist' = Issued(loc[p].email, "recovery")
          /\ Goto(p, "rec_mail", [loc[p] EXCEPT !.token = nextToken + 1])
       \/ /\ world.faults \/ nextToken = MaxTokens
          /\ Return(p, INTERNAL_SERVER_ERROR,
                    "Failed to create recovery token", loc[p])
          /\ UNCHANGED << tokens, nextToken, hist >>
    /\ UNCHANGED << world, stores, locks, users, session, nextId >>

\* Lines 346-366: send_mail, then the rendered page.
recover_account_mail(p) ==
    /\ pc[p] = "rec_mail"
    /\ \E sent \in send_mail :
         IF sent
         THEN \/ Return(p, OK, "recover", loc[p])
              \/ /\ world.faults
                 /\ Return(p, INTERNAL_SERVER_ERROR,
                           "Internal server error.", loc[p])
         ELSE Return(p, INTERNAL_SERVER_ERROR,
                     "Failed to send recovery email", loc[p])
    /\ UNCHANGED << world, stores, locks, users, tokens, session, fresh, hist >>

\* Lines 370-387: token::consume(&token) and the page that sends the browser
\* to the registration form in reset mode.
reset_account(p) ==
    /\ pc[p] = "idle"
    /\ \E token \in TokenInputs :
        LET h == "reset_account"
            l == [Start(h) EXCEPT !.token = token]
        IN  IF token \in DOMAIN tokens
            THEN /\ tokens' = token_consume(token)
                 /\ hist' = Consumed(token, h)
                 /\ Return(p, OK, "/register?reset_mode=true&success=true",
                           [l EXCEPT !.email = tokens[token]])
            ELSE /\ Return(p, OK, "/register?error=recovery_failed", l)
                 /\ UNCHANGED << tokens, hist >>
    /\ UNCHANGED << world, stores, locks, users, session, fresh >>

\* ------------------------------------------------------------------ system

\* The response reaches the client, which may send its next request.
respond(p) ==
    /\ pc[p] = "done"
    /\ pc' = [pc EXCEPT ![p] = "idle"]
    /\ loc' = [loc EXCEPT ![p] = NoLoc]
    /\ UNCHANGED << world, stores, locks, db, session, fresh, hist >>

Next ==
    \E p \in Procs :
        \/ register_begin(p)
        \/ register_begin_insert(p)
        \/ register_complete(p)
        \/ register_complete_take(p)
        \/ complete_registration_finish(p)
        \/ complete_registration_store(p)
        \/ register_complete_passkey(p)
        \/ register_complete_create(p)
        \/ register_complete_set_passkey(p)
        \/ register_complete_token(p)
        \/ register_complete_mail(p)
        \/ login_begin(p)
        \/ begin_authentication_read(p)
        \/ begin_authentication_start(p)
        \/ login_begin_insert(p)
        \/ login_complete(p)
        \/ login_complete_take(p)
        \/ complete_authentication_finish(p)
        \/ login_complete_session(p)
        \/ logout(p)
        \/ validate_account(p)
        \/ validate_account_verify(p)
        \/ recover_account(p)
        \/ recover_account_token(p)
        \/ recover_account_mail(p)
        \/ reset_account(p)
        \/ respond(p)

Spec == Init /\ [][Next]_vars

\* ------------------------------------------------------------------ claims

Completions == {"register_complete", "login_complete"}

\* Client p holds the response of a request to handler h.
Done(p, h) == pc[p] = "done" /\ loc[p].handler = h

\* The request of client p passed the checks of its payload's fields and
\* went on to look its state id up.
Looked(p) ==
    /\ loc[p].handler \in Completions
    /\ loc[p].state_id # NoId

StateNotFound(p) ==
    /\ loc[p].status = BAD_REQUEST
    /\ loc[p].body = "Invalid state"

\* C1: exactly-once completion.  A completion request (register_complete or
\* login_complete) that arrives after a completion with the same state id
\* has succeeded, and whose payload has the required fields, is answered
\* 400 "Invalid state"; no state id is completed successfully twice.
C1_ExactlyOnce ==
    \A p \in Procs :
        (pc[p] = "done" /\ Looked(p) /\ loc[p].late) => StateNotFound(p)

\* Both kinds of ceremony were completed and then completed again: the two
\* clients hold the "Invalid state" answers of a late register_complete and
\* of a late login_complete.
C1_Witness ==
    \E p, q \in Procs :
        /\ Done(p, "register_complete") /\ loc[p].late /\ StateNotFound(p)
        /\ hist.completed[loc[p].state_id] = "register_complete"
        /\ Done(q, "login_complete") /\ loc[q].late /\ StateNotFound(q)
        /\ hist.completed[loc[q].state_id] = "login_complete"

\* C2: of the completion requests that carry one state id, under any
\* interleaving, at most one obtains the stored ceremony state; every other
\* one that reaches the lookup is answered 400 "Invalid state".
C2_AtMostOneTake ==
    /\ \A id \in DOMAIN hist.taken : hist.taken[id] <= 1
    /\ \A p, q \in Procs :
         (p # q /\ Looked(p) /\ Looked(q)
              /\ loc[p].state_id = loc[q].state_id)
            => ~(loc[p].live /\ loc[q].live)
    /\ \A p \in Procs :
         (pc[p] = "done" /\ Looked(p) /\ ~loc[p].live) => StateNotFound(p)

\* Two overlapping login_complete requests with one state id: the first
\* obtained the state and logged in, the second, sent before the first had
\* returned, found the entry gone.
C2_Witness ==
    \E p, q \in Procs :
        /\ p # q
        /\ loc[p].state_id = loc[q].state_id
        /\ Done(p, "login_complete") /\ loc[p].live /\ loc[p].body = "/home"
        /\ Done(q, "login_complete") /\ ~loc[q].live /\ ~loc[q].late
        /\ StateNotFound(q)

\* The step of client p that leaves position `label`.
Leaves(p, label) == pc[p] = label /\ pc'[p] # label

\* C3: when login_complete finds its state and the challenge embedded in the
\* response's client data differs from the server_challenge recorded for that
\* state id at login_begin, the request ends there with 401 "Invalid
\* challenge" and the session is left as it was, whether or not the crypto
\* library would have accepted the response.
C3_ChallengeMismatch ==
    [][\A p \in Procs :
         LET state_id == loc[p].state_id
             response == loc[p].response
         IN  ( /\ Leaves(p, "lc_take")
               /\ state_id \in DOMAIN AUTHENTICATION_STATES
               /\ response.shape = "ok"
               /\ response.challenge \in Challenges
               /\ response.challenge #
                    AUTHENTICATION_STATES[state_id].server_challenge )
             => /\ pc'[p] = "done"
                /\ loc'[p].status = UNAUTHORIZED
                /\ loc'[p].body = "Invalid challenge"
                /\ session' = session
                /\ authLock' = None
    ]_vars

\* A login_complete whose response the crypto library would have accepted
\* was refused for its challenge, and the client has no session.
C3_Witness ==
    \E p \in Procs :
        /\ Done(p, "login_complete")
        /\ loc[p].live
        /\ loc[p].response.verifies
        /\ loc[p].status = UNAUTHORIZED
        /\ loc[p].body = "Invalid challenge"
        /\ session[p] = NoSession

\* C4: a register_complete (login_complete) whose state id is not an entry of
\* REGISTRATION_STATES (AUTHENTICATION_STATES) at the lookup ends there with
\* 400 "Invalid state", and the step leaves both state maps, the credential
\* store, the users, the tokens and the sessions unchanged.
C4_UnknownState ==
    [][\A p \in Procs :
         ( \/ /\ Leaves(p, "rc_take")
               /\ loc[p].state_id \notin DOMAIN REGISTRATION_STATES
            \/ /\ Leaves(p, "lc_take")
               /\ loc[p].state_id \notin DOMAIN AUTHENTICATION_STATES )
         => /\ pc'[p] = "done"
            /\ StateNotFound(p)'
            /\ UNCHANGED << stores, db, session >>
    ]_vars

\* A register_complete with a state id whose state no lookup ever obtained
\* was answered "Invalid state" while an authentication ceremony state, a
\* credential and an account were stored.
C4_Witness ==
    \E p \in Procs :
        /\ Done(p, "register_complete")
        /\ StateNotFound(p)
        /\ loc[p].state_id \notin DOMAIN hist.taken
        /\ DOMAIN AUTHENTICATION_STATES # {}
        /\ DOMAIN CREDENTIAL_STORE # {}
        /\ DOMAIN users # {}

TokenEndpoints == {"validate_account", "reset_account"}

\* What a token endpoint answers when token::consume fails.
TokenNotFound(l) ==
    l.body = IF l.handler = "validate_account"
             THEN "/register?error=invalid_token"
             ELSE "/register?error=recovery_failed"

\* Client p sends a request to handler h.
Calls(p, h) == pc[p] = "idle" /\ pc'[p] # "idle" /\ loc'[p].handler = h

\* C5: token single use.  Every token was consumed at most once, by
\* validate_account or by reset_account, and the consume yielded the email
\* the token was issued for; a consumed token is no longer stored.  A request
\* to validate_account or reset_account with a token that was consumed before
\* or was never issued ends with the endpoint's not-found answer and consumes
\* nothing.
C5_SingleUse ==
    /\ [](\A t \in DOMAIN hist.consumed :
             /\ Len(hist.consumed[t]) = 1
             /\ t \in DOMAIN hist.issued
             /\ t \notin DOMAIN tokens)
    /\ [][\A p \in Procs : \A h \in TokenEndpoints :
            Calls(p, h) =>
              LET t == loc'[p].token
              IN  IF t \in DOMAIN hist.issued \ DOMAIN hist.consumed
                  THEN /\ hist'.consumed = Insert(hist.consumed, t, << h >>)
                       /\ loc'[p].email = hist.issued[t].email
                       /\ ~TokenNotFound(loc'[p])
                  ELSE /\ pc'[p] = "done"
                       /\ TokenNotFound(loc'[p])
                       /\ loc'[p].email = None
                       /\ UNCHANGED << tokens, users, hist >>
       ]_vars

\* A token was consumed by validate_account, and a later reset_account with
\* the same token was answered with the recovery_failed page.
C5_Witness ==
    \E p \in Procs :
        /\ Done(p, "reset_account")
        /\ loc[p].token \in DOMAIN hist.consumed
        /\ hist.consumed[loc[p].token] = << "validate_account" >>
        /\ loc[p].body = "/register?error=recovery_failed"

Conflict(l) ==
    /\ l.status = BAD_REQUEST
    /\ l.body = "There was a problem with your registration"

\* C6: a register_begin for a well-formed email without reset_mode, sent
\* while an account exists for the email, ends with 400 "There was a problem
\* with your registration", returns no state id and leaves
\* REGISTRATION_STATES unchanged.  A register_begin for a well-formed email
\* with reset_mode true goes on, account or not, to store its registration
\* state under a new state id and is answered 200.
C6_ResetMode ==
    [][\A p \in Procs :
         /\ Calls(p, "register_begin") =>
              LET l == loc'[p]
              IN  /\ (~l.reset_mode /\ l.email \in DOMAIN users) =>
                        /\ pc'[p] = "done"
                        /\ Conflict(l)
                        /\ l.state_id = NoId
                        /\ UNCHANGED REGISTRATION_STATES
                  /\ (l.reset_mode /\ EmailInput_new(l.email)) =>
                        /\ pc'[p] = "rb_insert"
                        /\ l.existed = (l.email \in DOMAIN users)
                        /\ l.state_id \notin DOMAIN REGISTRATION_STATES
         /\ Leaves(p, "rb_insert") =>
              /\ pc'[p] = "done"
              /\ loc'[p].status = OK
              /\ loc'[p].state_id = loc[p].state_id
              /\ REGISTRATION_STATES' =
                   Insert(REGISTRATION_STATES, loc[p].state_id,
                          [ registration_state |-> loc[p].stored,
                            challenge |-> loc[p].stored.challenge ])
    ]_vars

\* For one existing account, one client was refused a plain register_begin
\* and the other was given a state id by a register_begin in reset mode.
C6_Witness ==
    \E p, q \in Procs :
        /\ Done(p, "register_begin") /\ ~loc[p].reset_mode
        /\ loc[p].existed /\ Conflict(loc[p])
        /\ Done(q, "register_begin") /\ loc[q].reset_mode
        /\ loc[q].email = loc[p].email
        /\ loc[q].existed /\ loc[q].status = OK
        /\ loc[q].state_id \in DOMAIN REGISTRATION_STATES

\* C7: a login_begin for a well-formed email ends with 400 "User not found"
\* when no user exists for the email and with 400 "User not verified" when
\* the user exists and is not verified; in both cases it returns no state id
\* and leaves AUTHENTICATION_STATES unchanged.
C7_LoginRefused ==
    [][\A p \in Procs :
         Calls(p, "login_begin") =>
           LET l == loc'[p]
               refused(body) ==
                   /\ pc'[p] = "done"
                   /\ l.status = BAD_REQUEST
                   /\ l.body = body
                   /\ l.state_id = NoId
                   /\ UNCHANGED AUTHENTICATION_STATES
           IN  /\ (EmailInput_new(l.email) /\ l.email \notin DOMAIN users)
                    => refused("User not found")
               /\ (l.email \in DOMAIN users /\ ~users[l.email].verified)
                    => refused("User not verified")
    ]_vars

\* One client was told "User not found" before the account was registered,
\* the other "User not verified" once it was.
C7_Witness ==
    \E p, q \in Procs :
        /\ Done(p, "login_begin") /\ loc[p].body = "User not found"
        /\ loc[p].status = BAD_REQUEST
        /\ Done(q, "login_begin") /\ loc[q].body = "User not verified"
        /\ loc[q].email = loc[p].email

\* User `email` exists and is verified in user store u.
Verified(u, email) == email \in DOMAIN u /\ u[email].verified

\* Token t is owned by `email` and was consumed through endpoint `via`.
ConsumedFor(t, email, via) ==
    /\ t \in DOMAIN hist.consumed
    /\ hist.consumed[t] = << via >>
    /\ hist.issued[t].email = email

\* C8 as stated: a user is verified only if a token issued for the
\* validation of the user's email (by register_complete) was consumed.
C8_ValidationTokenOnly ==
    \A email \in DOMAIN users :
        users[email].verified =>
            \E t \in DOMAIN hist.consumed :
                hist.issued[t] = [email |-> email, purpose |-> "validation"]

\* C8, amended: a user is verified only if a token owned by the user's email,
\* whichever of register_complete and recover_account issued it, was consumed
\* through validate_account; and the only step that makes a user verified is
\* the user::verify of a validate_account whose consume yielded that email.
C8_VerifiedByValidate ==
    /\ [](\A email \in DOMAIN users :
             users[email].verified =>
                 \E t \in DOMAIN hist.consumed :
                     ConsumedFor(t, email, "validate_account"))
    /\ [][\A email \in DOMAIN users' :
            (Verified(users', email) /\ ~Verified(users, email)) =>
                \E p \in Procs :
                    /\ Leaves(p, "va_verify")
                    /\ loc[p].email = email
                    /\ \E t \in DOMAIN hist.consumed :
                          /\ t = loc[p].token
                          /\ ConsumedFor(t, email, "validate_account")
       ]_vars

\* A user is verified and the only token consumed for the user's email was
\* issued by recover_account and consumed through validate_account.
C8_Witness ==
    \E email \in DOMAIN users :
        /\ users[email].verified
        /\ \E t \in DOMAIN hist.consumed :
              /\ ConsumedFor(t, email, "validate_account")
              /\ hist.issued[t].purpose = "recovery"
        /\ \A t \in DOMAIN hist.consumed :
              hist.issued[t].email = email
                  => hist.issued[t].purpose = "recovery"

\* The side effects of register_complete, in the order of the claim.
SideEffects == << "record", "create", "attach", "token", "mail" >>

\* The step of client p from position `from` either goes on to position `to`
\* having performed side effect number i, or ends the request with a 500 and
\* changes neither the stores nor the list of side effects performed.
Stage(p, from, to, i, effect) ==
    Leaves(p, from) =>
        \/ /\ pc'[p] = to
           /\ loc[p].done = SubSeq(SideEffects, 1, i - 1)
           /\ loc'[p].done = SubSeq(SideEffects, 1, i)
           /\ effect
        \/ /\ pc'[p] = "done"
           /\ loc'[p].status = INTERNAL_SERVER_ERROR
           /\ loc'[p].done = loc[p].done
           /\ UNCHANGED << stores, db >>

\* The account of `email` with its credential, and token t generated for it
\* (stored, unless a request of another client has consumed it since).
Committed(email, t) ==
    /\ email \in DOMAIN users
    /\ email \in DOMAIN CREDENTIAL_STORE
    /\ users[email].passkey = CREDENTIAL_STORE[email]
    /\ users[email].passkey # 0
    /\ t \in DOMAIN hist.issued
    /\ hist.issued[t] = [email |-> email, purpose |-> "validation"]
    /\ t \in DOMAIN tokens \cup DOMAIN hist.consumed
    /\ t \in DOMAIN tokens => tokens[t] = email

\* C9: once the crypto library has accepted the response, register_complete
\* (1) records the passkey under the email in CREDENTIAL_STORE, (2) creates
\* the user with verified = false, (3) sets the user's passkey to the
\* recorded one, read back from CREDENTIAL_STORE, (4) generates a token for
\* the email, (5) attempts the mail; each step is taken only after the ones before it succeeded, a failing step
\* ends the request with a 500 and changes nothing, and the mail step,
\* whether it is answered 200 or 500, starts from the user, the credential
\* and the token committed and leaves them as they are.
C9_SideEffectOrder ==
    [][\A p \in Procs :
         LET email == loc[p].email
         IN  /\ Leaves(p, "rc_finish") =>
                  (pc'[p] = "rc_store" <=> loc[p].response.verifies)
             /\ Stage(p, "rc_store", "rc_passkey", 1,
                   /\ loc[p].response.verifies
                   /\ email \in DOMAIN CREDENTIAL_STORE'
                   /\ CREDENTIAL_STORE'[email] = loc[p].stored.cred
                   /\ UNCHANGED db)
             /\ Leaves(p, "rc_passkey") =>
                   /\ pc'[p] = "rc_create"
                   /\ loc'[p].done = loc[p].done
                   /\ loc'[p].passkey = CREDENTIAL_STORE[email]
                   /\ loc'[p].passkey = loc[p].stored.cred
                   /\ UNCHANGED << stores, db >>
             /\ Stage(p, "rc_create", "rc_set_passkey", 2,
                   /\ email \in DOMAIN users'
                   /\ ~users'[email].verified
                   /\ users'[email].passkey = 0
                   /\ UNCHANGED << stores, tokens >>)
             /\ Stage(p, "rc_set_passkey", "rc_token", 3,
                   /\ users' = [users EXCEPT ![email].passkey =
                                                 CREDENTIAL_STORE[email]]
                   /\ UNCHANGED << stores, tokens >>)
             /\ Stage(p, "rc_token", "rc_mail", 4,
                   /\ loc'[p].token \notin DOMAIN tokens
                   /\ tokens' = Insert(tokens, loc'[p].token, email)
                   /\ UNCHANGED << stores, users >>)
             /\ Leaves(p, "rc_mail") =>
                   /\ pc'[p] = "done"
                   /\ loc[p].done = SubSeq(SideEffects, 1, 4)
                   /\ loc'[p].done = SideEffects
                   /\ \/ loc'[p].status = OK
                      \/ /\ loc'[p].status = INTERNAL_SERVER_ERROR
                         /\ loc'[p].body = "Failed to send validation email"
                   /\ Committed(email, loc[p].token)
                   /\ UNCHANGED << stores, db >>
    ]_vars

\* The mail of a registration failed and the client was answered 500, while
\* the user, the user's passkey and the token are stored.
C9_Witness ==
    \E p \in Procs :
        /\ Done(p, "register_complete")
        /\ loc[p].done = SideEffects
        /\ loc[p].status = INTERNAL_SERVER_ERROR
        /\ Committed(loc[p].email, loc[p].token)
        /\ loc[p].token \in DOMAIN tokens
        /\ ~users[loc[p].email].verified

\* C10 as stated: a register_begin in reset mode for an email that has an
\* account gets past the already-exists check only if a token owned by that
\* email was consumed through reset_account before.
C10_ResetAfterRecovery ==
    \A p \in Procs :
        ( /\ loc[p].handler = "register_begin"
          /\ loc[p].reset_mode
          /\ loc[p].existed
          /\ loc[p].state_id # NoId )
        => \E t \in DOMAIN hist.consumed :
               ConsumedFor(t, loc[p].email, "reset_account")

\* Client p holds the redirect to /home of a successful login_complete.
LoggedIn(p) ==
    /\ Done(p, "login_complete")
    /\ loc[p].status = SEE_OTHER
    /\ loc[p].body = "/home"

\* C11 as stated: when login_complete has succeeded, the client's session
\* is marked authenticated and names the email that the ceremony was begun
\* for at login_begin; and a session is marked authenticated only by such a
\* step.
C11_SessionIdentity ==
    \A p \in Procs :
        LoggedIn(p) =>
            /\ "isAuthenticated" \in DOMAIN session[p]
            /\ "email" \in DOMAIN session[p]
            /\ session[p]["email"] = hist.begun[loc[p].state_id].email

\* The positions at which a handler has a call to the crypto library, the
\* credential store, the user or token store, the mail transport or the
\* session in flight.
InFlight ==
    { "rc_finish", "rc_store", "rc_passkey", "rc_create", "rc_set_passkey",
      "rc_token", "rc_mail", "lc_finish", "lc_session" }

\* C12 as stated: no handler holds the write lock of REGISTRATION_STATES or
\* of AUTHENTICATION_STATES while one of its calls to a collaborator is in
\* flight.
C12_NoLockAcrossCalls ==
    \A p \in Procs :
        pc[p] \in InFlight => (regLock # p /\ authLock # p)

Begins == {"register_begin", "login_begin"}

\* The state ids with an entry in either map.
Live == DOMAIN REGISTRATION_STATES \cup DOMAIN AUTHENTICATION_STATES

\* C13: the state id that register_begin or login_begin generates is in
\* neither map when it is generated, and is still in neither map, and was
\* never stored under before, when the handler inserts its state; the insert
\* leaves every other entry of both maps as it was; and two begin requests
\* that were both answered 200 were given different state ids.
C13_FreshStateId ==
    /\ [](\A p, q \in Procs :
             ( /\ p # q
               /\ loc[p].handler \in Begins /\ loc[p].state_id # NoId
               /\ loc[q].handler \in Begins /\ loc[q].state_id # NoId )
             => loc[p].state_id # loc[q].state_id)
    /\ [][\A p \in Procs :
            /\ (Leaves(p, "idle") /\ pc'[p] \in {"rb_insert", "lb_insert"})
                 => loc'[p].state_id \notin Live
            /\ (Leaves(p, "lb_start") /\ pc'[p] = "lb_insert")
                 => loc'[p].state_id \notin Live
            /\ (Leaves(p, "rb_insert") \/ Leaves(p, "lb_insert")) =>
                 /\ loc[p].state_id \notin Live
                 /\ loc[p].state_id \notin DOMAIN hist.begun
                 /\ Live' = Live \cup {loc[p].state_id}
                 /\ \A id \in DOMAIN REGISTRATION_STATES :
                       REGISTRATION_STATES'[id] = REGISTRATION_STATES[id]
                 /\ \A id \in DOMAIN AUTHENTICATION_STATES :
                       AUTHENTICATION_STATES'[id] = AUTHENTICATION_STATES[id]
       ]_vars

\* Two register_begin requests were answered with different state ids, and
\* both states are stored.
C13_Witness ==
    \E p, q \in Procs :
        /\ p # q
        /\ Done(p, "register_begin") /\ loc[p].status = OK
        /\ Done(q, "register_begin") /\ loc[q].status = OK
        /\ loc[p].state_id # loc[q].state_id
        /\ {loc[p].state_id, loc[q].state_id} \subseteq
               DOMAIN REGISTRATION_STATES

\* C14 as stated: when the crypto library rejects the response, in
\* register_complete as in login_complete, the request ends with the
\* authorization failure 401, an answer that differs from the 500 given to
\* the failures that come after a successful verification.
C14_RejectionUnauthorized ==
    [][\A p \in Procs :
         ( /\ Leaves(p, "rc_finish") \/ Leaves(p, "lc_finish")
           /\ ~loc[p].response.verifies )
         => /\ pc'[p] = "done"
            /\ loc'[p].status = UNAUTHORIZED
    ]_vars

\* C15: a state id whose state a completion request has obtained is in
\* neither map from then on, whatever became of that request; the lookup of
\* register_complete (login_complete) leaves no entry under its state id in
\* REGISTRATION_STATES (AUTHENTICATION_STATES); and every lookup of a state
\* id whose state was obtained before ends with 400 "Invalid state".
C15_ConsumedOnFailure ==
    /\ [](\A id \in DOMAIN hist.taken : id \notin Live)
    /\ [][\A p \in Procs :
            LET state_id == loc[p].state_id
            IN  /\ Leaves(p, "rc_take") =>
                     state_id \notin DOMAIN REGISTRATION_STATES'
                /\ Leaves(p, "lc_take") =>
                     state_id \notin DOMAIN AUTHENTICATION_STATES'
                /\ ( /\ Leaves(p, "rc_take") \/ Leaves(p, "lc_take")
                     /\ state_id \in DOMAIN hist.taken )
                    => /\ pc'[p] = "done"
                       /\ StateNotFound(p)'
       ]_vars

\* A register_complete obtained the state, created the account and failed
\* after generating the token (or at the mail); a later register_complete
\* with the same state id was answered "Invalid state".
C15_Witness ==
    \E p \in Procs :
        /\ Done(p, "register_complete")
        /\ StateNotFound(p)
        /\ loc[p].state_id \in DOMAIN hist.taken
        /\ loc[p].state_id \notin DOMAIN hist.completed
        /\ \A q \in Procs \ {p} : loc[q].state_id # loc[p].state_id
        /\ hist.begun[loc[p].state_id].email \in DOMAIN users
        /\ nextToken > 0

\* Over one step, the entries of map m either stay as they are or are
\* removed by the lookup, at position `take`, of a completion request that
\* carries their state id (n is the map after the step).
KeptOrTaken(m, n, take) ==
    \A id \in DOMAIN m :
        IF id \in DOMAIN n
        THEN n[id] = m[id]
        ELSE \E p \in Procs : Leaves(p, take) /\ loc[p].state_id = id

\* C16: an entry of REGISTRATION_STATES or AUTHENTICATION_STATES holds the
\* protocol state and the challenge that its begin produced; every step
\* leaves it as it is, except the lookup of a register_complete
\* (login_complete) that carries its state id, which removes it.  No other
\* step, and no passing of time, removes an entry.
C16_EntriesImmutable ==
    /\ [](/\ \A id \in DOMAIN REGISTRATION_STATES :
                REGISTRATION_STATES[id] =
                    [ registration_state |-> begin_registration(id).reg_state,
                      challenge |-> begin_registration(id).public_key.challenge ]
          /\ \A id \in DOMAIN AUTHENTICATION_STATES :
                /\ AUTHENTICATION_STATES[id].server_challenge = id
                /\ AUTHENTICATION_STATES[id].state.challenge = id)
    /\ [][/\ KeptOrTaken(REGISTRATION_STATES, REGISTRATION_STATES', "rc_take")
          /\ KeptOrTaken(AUTHENTICATION_STATES, AUTHENTICATION_STATES',
                         "lc_take")
       ]_vars

\* The state of the first ceremony is still stored, as inserted, after a
\* later ceremony was begun and its state obtained by a completion.
C16_Witness ==
    \E id \in DOMAIN REGISTRATION_STATES :
        /\ REGISTRATION_STATES[id].challenge = id
        /\ \E later \in DOMAIN hist.taken : later > id
        /\ \A p \in Procs : loc[p].state_id # id

\* C17: login_complete reaches WEBAUTHN.finish_passkey_authentication only
\* with a response whose client data carries a challenge equal to the
\* server_challenge stored under its state id; a request whose client data
\* is unreadable, carries no challenge or carries another challenge ends at
\* the check with a 401 and never reaches the call.
C17_CompareBeforeFinish ==
    /\ [](\A p \in Procs :
             pc[p] \in {"lc_finish", "lc_session"} =>
                 /\ loc[p].response.shape = "ok"
                 /\ loc[p].response.challenge \in Challenges
                 /\ loc[p].response.challenge = loc[p].stored.challenge)
    /\ [][\A p \in Procs :
            LET state_id == loc[p].state_id
                matches ==
                    /\ state_id \in DOMAIN AUTHENTICATION_STATES
                    /\ loc[p].response.shape = "ok"
                    /\ loc[p].response.challenge =
                         AUTHENTICATION_STATES[state_id].server_challenge
            IN  /\ (pc[p] # "lc_finish" /\ pc'[p] = "lc_finish") =>
                     (pc[p] = "lc_take" /\ matches)
                /\ (Leaves(p, "lc_take") /\ ~matches) =>
                     /\ pc'[p] = "done"
                     /\ loc'[p].status \in {BAD_REQUEST, UNAUTHORIZED}
       ]_vars

\* A login_complete passed the comparison and is at the call of
\* finish_passkey_authentication, which will reject its response.
C17_Witness ==
    \E p \in Procs :
        /\ pc[p] = "lc_finish"
        /\ loc[p].response.challenge = loc[p].stored.challenge
        /\ ~loc[p].response.verifies

\* The request that began the ceremony whose state client p obtained.
Ceremony(p) == hist.begun[loc[p].state_id]

\* C18 as stated: where no request is sent in reset mode, a
\* register_complete that presents the email its ceremony was begun for
\* leaves the passkey that CREDENTIAL_STORE holds for the email as it is
\* when the email has an account with that passkey: the credential is that of
\* the first ceremony completed.
C18_CredentialSetOnce ==
    [][\A p \in Procs :
         ( /\ Leaves(p, "rc_store")
           /\ ~world.resets
           /\ Ceremony(p).email = loc[p].email
           /\ loc[p].email \in DOMAIN CREDENTIAL_STORE
           /\ loc[p].email \in DOMAIN users
           /\ users[loc[p].email].passkey = CREDENTIAL_STORE[loc[p].email] )
         => CREDENTIAL_STORE'[loc[p].email] = CREDENTIAL_STORE[loc[p].email]
    ]_vars

\* C19: a user record exists only for an email under which a
\* register_complete recorded a passkey, which it does only once the crypto
\* library has accepted its response; the step that creates the record of an
\* email is the user::create of such a register_complete for that email.
\* Until then a login_begin for the email ends with 400 "User not found".
C19_NoUserBeforeVerification ==
    /\ [](DOMAIN users \subseteq DOMAIN CREDENTIAL_STORE)
    /\ [][/\ \A email \in DOMAIN users' \ DOMAIN users :
               \E p \in Procs :
                   /\ Leaves(p, "rc_create")
                   /\ loc[p].email = email
                   /\ loc[p].live
                   /\ loc[p].response.verifies
          /\ \A p \in Procs :
               ( /\ Calls(p, "login_begin")
                 /\ EmailInput_new(loc'[p].email)
                 /\ loc'[p].email \notin DOMAIN CREDENTIAL_STORE )
               => /\ pc'[p] = "done"
                  /\ loc'[p].status = BAD_REQUEST
                  /\ loc'[p].body = "User not found"
                  /\ UNCHANGED AUTHENTICATION_STATES
       ]_vars

\* A registration was begun for an email, its completion obtained the state
\* and was rejected by the crypto library, and a login_begin for the email
\* was answered "User not found".
C19_Witness ==
    \E p \in Procs :
        /\ Done(p, "login_begin")
        /\ loc[p].body = "User not found"
        /\ loc[p].email \notin DOMAIN CREDENTIAL_STORE
        /\ \E id \in DOMAIN hist.taken :
              /\ hist.begun[id].handler = "register_begin"
              /\ hist.begun[id].email = loc[p].email

\* C20 as stated: a register_complete that presents another email than the
\* one its ceremony was begun for records no passkey in CREDENTIAL_STORE and
\* attaches none to a user record.
C20_CredentialUnderBegunEmail ==
    [][\A p \in Procs :
         ( /\ loc[p].handler = "register_complete"
           /\ loc[p].live
           /\ pc[p] # pc'[p]
           /\ Ceremony(p).email # loc[p].email )
         => /\ UNCHANGED CREDENTIAL_STORE
            /\ \A email \in DOMAIN users' :
                  email \in DOMAIN users
                      /\ users'[email].passkey = users[email].passkey
    ]_vars

\* ----------------------------------------------------------------- locks

\* Handler p stands at the request of a lock.
AwaitsRegistrationStates(p) == pc[p] \in {"rb_insert", "rc_take"}
AwaitsAuthenticationStates(p) == pc[p] \in {"lb_insert", "lc_take"}
AwaitsCredentialWrite(p) == pc[p] = "rc_store"
AwaitsCredentialRead(p) == pc[p] \in {"rc_passkey", "lb_read"}

\* Handler p stands at the request of a lock that it cannot be granted
\* before handler q has moved: q holds the lock, or q stands in the queue of
\* the lock as a writer while p asks to read (tokio's RwLock serves its
\* queue in order, so a queued writer is served before a later reader).
Blocks(q, p) ==
    \/ AwaitsRegistrationStates(p) /\ regLock = q
    \/ AwaitsAuthenticationStates(p) /\ authLock = q
    \/ AwaitsCredentialWrite(p) /\ (credWriter = q \/ q \in credReaders)
    \/ AwaitsCredentialRead(p)
          /\ (credWriter = q \/ (q # p /\ AwaitsCredentialWrite(q)))

\* The steps of client p in the four handlers that take the locks, from the
\* receipt of the request to its answer.
Ceremonies(p) ==
    \/ register_begin(p)
    \/ register_begin_insert(p)
    \/ register_complete(p)
    \/ register_complete_take(p)
    \/ complete_registration_finish(p)
    \/ complete_registration_store(p)
    \/ register_complete_passkey(p)
    \/ register_complete_create(p)
    \/ register_complete_set_passkey(p)
    \/ register_complete_token(p)
    \/ register_complete_mail(p)
    \/ login_begin(p)
    \/ begin_authentication_read(p)
    \/ begin_authentication_start(p)
    \/ login_begin_insert(p)
    \/ login_complete(p)
    \/ login_complete_take(p)
    \/ complete_authentication_finish(p)
    \/ login_complete_session(p)

\* The requests to register_begin, register_complete, login_begin and
\* login_complete in any interleaving, with validate_account (which takes
\* no lock) so that an account can log in.
Interleaving ==
    \E p \in Procs :
        \/ Ceremonies(p)
        \/ validate_account(p)
        \/ validate_account_verify(p)
        \/ respond(p)

\* The tokio runtime polls every task that can run, the calls to the
\* collaborators return, and a tokio lock is granted in the order of its
\* queue: a handler that has received its request and can move again and
\* again does move.  A client is free never to send a request.
Fairness ==
    \A p \in Procs :
        SF_vars(pc[p] # "idle" /\ (Ceremonies(p) \/ validate_account_verify(p)))

\* Two clients, no request sent yet.
InitDuo == Init /\ world = Duo

\* Two clients whose requests interleave, under fair scheduling.
FairSpec == InitDuo /\ [][Interleaving]_vars /\ Fairness

\* C21: no set of handlers waits in a cycle on the locks of
\* REGISTRATION_STATES, AUTHENTICATION_STATES and CREDENTIAL_STORE (in every
\* set of handlers there is one that no member of the set blocks), and a
\* handler that holds one of the locks releases it later, where the runtime
\* schedules every handler and the calls to the collaborators return.
C21_DeadlockFreedom ==
    /\ [](\A S \in SUBSET Procs :
            S # {} => \E p \in S : \A q \in S : ~Blocks(q, p))
    /\ \A p \in Procs :
          /\ (regLock = p) ~> (regLock # p)
          /\ (authLock = p) ~> (authLock # p)
          /\ (p \in credReaders) ~> (p \notin credReaders)
          /\ (credWriter = p) ~> (credWriter # p)

\* A register_complete holds the lock of REGISTRATION_STATES and stands at
\* the write lock of CREDENTIAL_STORE, which a login_begin holds for
\* reading; another request waits for neither.
C21_Witness ==
    \E p, q \in Procs :
        /\ regLock = p
        /\ AwaitsCredentialWrite(p)
        /\ q \in credReaders
        /\ Blocks(q, p)
        /\ ~Blocks(p, q)

\* The answers to a request that lacks a required field or whose email is
\* not an email address.
ValidationMessages ==
    { "Email is required", "Email is Invalid!", "First name is required",
      "Last name is required", "State ID is required", "Response is required" }

\* Client p receives, by this step, the rejection of a completion request
\* for the validation of its input.
RejectedForValidation(p) ==
    /\ pc[p] # "done"
    /\ pc'[p] = "done"
    /\ loc'[p].handler \in Completions
    /\ loc'[p].status = BAD_REQUEST
    /\ loc'[p].body \in ValidationMessages

\* C22 as stated: the step by which register_complete or login_complete
\* rejects a request for a missing email, first_name, last_name, state_id
\* or response, or for an invalid email, leaves REGISTRATION_STATES and
\* AUTHENTICATION_STATES as they were, so that the ceremony of the request's
\* state id can still be completed.
C22_ValidationLeavesStores ==
    [][\A p \in Procs :
         RejectedForValidation(p)
             => UNCHANGED << REGISTRATION_STATES, AUTHENTICATION_STATES >>
    ]_vars

\* The handler that issued state id `id`, where one did.
IssuedBy(id, h) == id \in DOMAIN hist.begun /\ hist.begun[id].handler = h

\* C23: the states of the two ceremonies are not interchangeable.  A state
\* id issued by register_begin has no entry in AUTHENTICATION_STATES and one
\* issued by login_begin has none in REGISTRATION_STATES; a login_complete
\* that presents a state id issued by register_begin, and a
\* register_complete that presents one issued by login_begin, ends at its
\* lookup with 400 "Invalid state", and both maps are after the lookup as
\* they were before it.
C23_NotInterchangeable ==
    /\ [](/\ \A id \in DOMAIN REGISTRATION_STATES :
               IssuedBy(id, "register_begin")
          /\ \A id \in DOMAIN AUTHENTICATION_STATES :
               IssuedBy(id, "login_begin"))
    /\ [][\A p \in Procs :
            ( \/ /\ Leaves(p, "lc_take")
                 /\ IssuedBy(loc[p].state_id, "register_begin")
              \/ /\ Leaves(p, "rc_take")
                 /\ IssuedBy(loc[p].state_id, "login_begin") )
            => /\ pc'[p] = "done"
               /\ loc'[p].status = BAD_REQUEST
               /\ loc'[p].body = "Invalid state"
               /\ UNCHANGED << REGISTRATION_STATES, AUTHENTICATION_STATES >>
       ]_vars

\* A register_complete was answered "Invalid state" for the state id of a
\* login that can still be completed.
C23_Witness ==
    \E p \in Procs :
        /\ Done(p, "register_complete")
        /\ StateNotFound(p)
        /\ IssuedBy(loc[p].state_id, "login_begin")
        /\ loc[p].state_id \in DOMAIN AUTHENTICATION_STATES

====
